---- MODULE Spec2Model ----
(***************************************************************************)
(* Model of ACADO's IntegratorExport                                       *)
(* (src/code_generation/integrators/integrator_export.cpp): the grid       *)
(* configuration, the interval lookup, the external model binding and the  *)
(* copy operations.                                                        *)
(*                                                                         *)
(* Times are doubles in the code.  They are modelled as exact rationals    *)
(* <<p, q>> in lowest terms with q > 0; the tolerance 10*EPS of the code   *)
(* is a positive amount smaller than every gap between the rationals that  *)
(* occur (see CeilEps).                                                    *)
(***************************************************************************)
EXTENDS Integers, Sequences, FiniteSets, TLC

\* ---------------------------------------------------------------- bounds

\* Grid points of caller-supplied grids are integers in -1 .. MaxTime.
MaxTime == 2
\* _numSteps of setGrid(_ocpGrid, _numSteps) ranges over 1 .. MaxSteps.
MaxSteps == 3
\* Times handed to getIntegrationInterval: p/q, q in 1 .. MaxDen.
MaxDen == 2
\* Dimensions of a symbolic right-hand side: 1 .. MaxDim.
MaxDim == 1

\* ------------------------------------------------------------- rationals

Abs(x) == IF x < 0 THEN 0 - x ELSE x

RECURSIVE GCD(_, _)
GCD(a, b) == IF b = 0 THEN a ELSE GCD(b, a % b)

\* p/q in lowest terms, q > 0.
Rat(p, q) ==
    LET g == GCD(Abs(p), q)
    IN  <<p \div g, q \div g>>

RatOfInt(n) == <<n, 1>>

RatSub(a, b) == Rat(a[1] * b[2] - b[1] * a[2], a[2] * b[2])

RatMul(a, b) == Rat(a[1] * b[1], a[2] * b[2])

\* a / b for b # 0.
RatDiv(a, b) ==
    IF b[1] > 0 THEN Rat(a[1] * b[2], a[2] * b[1])
    ELSE Rat((0 - a[1]) * b[2], a[2] * (0 - b[1]))

RatLess(a, b) == a[1] * b[2] < b[1] * a[2]

RatLeq(a, b) == a[1] * b[2] <= b[1] * a[2]

\* (int) ceil(x - 10.0*EPS) for x = p/q > 0: the tolerance pulls an exact
\* integer x back onto itself and is too small to change any other ceiling.
CeilEps_PlusOne(x) == x[1] \div x[2] + 1

CeilEps(x) ==
    IF x[1] % x[2] = 0 THEN x[1] \div x[2] ELSE x[1] \div x[2] + 1

\* ------------------------------------------------------------------ Grid
\* The Grid value type (acado/variables_grid/grid.hpp): a sequence of time
\* points.  A default-constructed Grid has no points.

EmptyGrid == <<>>

getNumPoints(g) == Len(g)

getNumIntervals(g) == IF Len(g) > 0 THEN Len(g) - 1 ELSE 0

\* getTime(i), i counted from 0.
getTime(g, i) == g[i + 1]

getFirstTime(g) == g[1]

getLastTime(g) == g[Len(g)]

isEquidistant(g) ==
    \A i \in 2 .. (Len(g) - 1) :
        RatSub(g[i + 1], g[i]) = RatSub(g[2], g[1])

\* Grid( _firstTime, _lastTime, _nPoints ): _nPoints equally spaced points.
GridCtor(firstTime, lastTime, nPoints) ==
    [i \in 1 .. nPoints |->
        RatSub(firstTime,
               RatMul(RatDiv(RatOfInt(i - 1), RatOfInt(nPoints - 1)),
                      RatSub(firstTime, lastTime)))]

\* ------------------------------------------------------- IntegratorExport

SUCCESSFUL_RETURN == "SUCCESSFUL_RETURN"
RET_INVALID_OPTION == "RET_INVALID_OPTION"

\* The state of a freshly constructed object: the constructor sets the three
\* flags; every other member is default-constructed (an empty grid, an empty
\* numSteps vector, empty names, an ODE of dimension 0) and N = 0.
DefaultMembers ==
    [EXPORT_RHS |-> TRUE, EQUIDISTANT |-> TRUE, CRS_FORMAT |-> FALSE,
     grid |-> EmptyGrid, numSteps |-> <<>>, N |-> 0,
     ODE |-> [dim |-> 0, name |-> "ODE"],
     diffs_ODE |-> [name |-> "diffs_ODE"],
     name_ODE |-> "", name_diffs_ODE |-> ""]

\* IntegratorExport( UserInteraction*, const String& )
Constructor == DefaultMembers

\* setGrid( const Grid& _grid )
setGrid(c, _grid) ==
    [c EXCEPT !.grid = _grid, !.EQUIDISTANT = FALSE]

\* The body of the stepsVector loop: entry i (from 0) of stepsVector.
stepsEntry(_ocpGrid, h, i) ==
    CeilEps(RatDiv(RatSub(getTime(_ocpGrid, i + 1), getTime(_ocpGrid, i)), h))

\* setGrid( const Grid& _ocpGrid, const uint _numSteps ), _numSteps >= 1.
setGridSteps_ExtraPoint(c, _ocpGrid, _numSteps) ==
    LET n == getNumIntervals(_ocpGrid)
        T == RatSub(getLastTime(_ocpGrid), getFirstTime(_ocpGrid))
        h == RatDiv(T, RatOfInt(_numSteps))
        stepsVector == [i \in 1 .. n |-> stepsEntry(_ocpGrid, h, i - 1)]
    IN  IF isEquidistant(_ocpGrid)
        THEN [c EXCEPT !.N = n,
                       !.grid = GridCtor(RatOfInt(0), RatDiv(T, RatOfInt(n)),
                                   CeilEps(Rat(_numSteps, n)) + 2)]
        ELSE [c EXCEPT !.N = n,
                       !.grid = GridCtor(RatOfInt(0), h, 2),
                       !.numSteps = stepsVector]

setGridSteps_SetsEquidistant(c, _ocpGrid, _numSteps) ==
    LET n == getNumIntervals(_ocpGrid)
        T == RatSub(getLastTime(_ocpGrid), getFirstTime(_ocpGrid))
        h == RatDiv(T, RatOfInt(_numSteps))
        stepsVector == [i \in 1 .. n |-> stepsEntry(_ocpGrid, h, i - 1)]
    IN  IF isEquidistant(_ocpGrid)
        THEN [c EXCEPT !.N = n,
                       !.EQUIDISTANT = TRUE,
                       !.grid = GridCtor(RatOfInt(0), RatDiv(T, RatOfInt(n)),
                                   CeilEps(Rat(_numSteps, n)) + 1)]
        ELSE [c EXCEPT !.N = n,
                       !.EQUIDISTANT = FALSE,
                       !.grid = GridCtor(RatOfInt(0), h, 2),
                       !.numSteps = stepsVector]

setGridSteps(c, _ocpGrid, _numSteps) ==
    LET n == getNumIntervals(_ocpGrid)
        T == RatSub(getLastTime(_ocpGrid), getFirstTime(_ocpGrid))
        h == RatDiv(T, RatOfInt(_numSteps))
        stepsVector == [i \in 1 .. n |-> stepsEntry(_ocpGrid, h, i - 1)]
    IN  IF isEquidistant(_ocpGrid)
        THEN [c EXCEPT !.N = n,
                       !.grid = GridCtor(RatOfInt(0), RatDiv(T, RatOfInt(n)),
                                   CeilEps(Rat(_numSteps, n)) + 1)]
        ELSE [c EXCEPT !.N = n,
                       !.grid = GridCtor(RatOfInt(0), h, 2),
                       !.numSteps = stepsVector]

\* setModel( _name_ODE, _name_diffs_ODE ): the object afterwards.
setModel_NoDimCheck(c, _name_ODE, _name_diffs_ODE) ==
    [c EXCEPT !.name_ODE = _name_ODE,
              !.name_diffs_ODE = _name_diffs_ODE,
              !.EXPORT_RHS = FALSE]

setModel(c, _name_ODE, _name_diffs_ODE) ==
    IF c.ODE.dim = 0
    THEN [c EXCEPT !.name_ODE = _name_ODE,
                   !.name_diffs_ODE = _name_diffs_ODE,
                   !.EXPORT_RHS = FALSE]
    ELSE c

\* setModel's return value.
setModelReturn(c) ==
    IF c.ODE.dim = 0 THEN SUCCESSFUL_RETURN ELSE RET_INVALID_OPTION

\* copy( const IntegratorExport& arg ): protected, and called by neither the
\* copy constructor nor operator=.
copy(c, arg) ==
    [c EXCEPT !.EXPORT_RHS = arg.EXPORT_RHS,
              !.EQUIDISTANT = arg.EQUIDISTANT,
              !.CRS_FORMAT = arg.CRS_FORMAT,
              !.grid = arg.grid,
              !.numSteps = arg.numSteps]

\* The base-class part of a copy (ExportAlgorithm( arg ) and
\* ExportAlgorithm::operator=( arg )): N is a member of the base class.
ExportAlgorithmCopy(c, arg) == [c EXCEPT !.N = arg.N]

\* IntegratorExport( const IntegratorExport& arg ): the base class is copied,
\* the flags are set to their defaults, the other members are
\* default-constructed.
CopyConstructor(arg) ==
    [ExportAlgorithmCopy(DefaultMembers, arg) EXCEPT
        !.EXPORT_RHS = TRUE, !.EQUIDISTANT = TRUE, !.CRS_FORMAT = FALSE]

\* clear( ) does nothing.
clear(c) == c

\* operator=( arg ); sameObject is this == &arg.  Otherwise clear( ), then
\* the base class is assigned.
assign(c, arg, sameObject) ==
    IF ~sameObject THEN ExportAlgorithmCopy(clear(c), arg) ELSE c

\* getIntegrationInterval( double time ) on a grid with at least one
\* interval: the while loop, from index.
RECURSIVE scanFrom(_, _, _)
scanFrom(g, time, index) ==
    LET scale == RatDiv(RatOfInt(1), RatSub(getLastTime(g), getFirstTime(g)))
    IN  IF index < getNumIntervals(g) - 1
           /\ RatLess(RatMul(scale, getTime(g, index + 1)), time)
        THEN scanFrom(g, time, index + 1)
        ELSE index

RECURSIVE scanFrom_NonStrict(_, _, _)
scanFrom_NonStrict(g, time, index) ==
    LET scale == RatDiv(RatOfInt(1), RatSub(getLastTime(g), getFirstTime(g)))
    IN  IF index < getNumIntervals(g) - 1
           /\ RatLeq(RatMul(scale, getTime(g, index + 1)), time)
        THEN scanFrom_NonStrict(g, time, index + 1)
        ELSE index

getIntegrationInterval_NoBound(c, time) ==
    LET g == c.grid
        scale == RatDiv(RatOfInt(1), RatSub(getLastTime(g), getFirstTime(g)))
    IN  Cardinality({i \in 1 .. getNumIntervals(g) :
                        RatLess(RatMul(scale, getTime(g, i)), time)})

getIntegrationInterval_NonStrict(c, time) == scanFrom_NonStrict(c.grid, time, 0)

getIntegrationInterval(c, time) == scanFrom(c.grid, time, 0)

equidistantControlGrid(c) == c.numSteps = <<>>

getNameODE(c) == IF c.EXPORT_RHS THEN c.ODE.name ELSE c.name_ODE

getNameDiffsODE(c) ==
    IF c.EXPORT_RHS THEN c.diffs_ODE.name ELSE c.name_diffs_ODE

\* A subclass's setDifferentialEquation: binds a symbolic right-hand side of
\* dimension dim >= 1 to ODE.
setDifferentialEquation(c, dim) == [c EXCEPT !.ODE.dim = dim]

\* ----------------------------------------------------------------- state

\* The two IntegratorExport objects of the model.
Objs == {"A", "B"}

\* cfg[o]: the members of object o.
\* last:   the most recent call: its name, the object it was made on, its
\*         arguments and its return value.
\* copies: the pairs <<dst, src>> such that dst was copy-constructed from or
\*         assigned from src.
VARIABLES cfg, last, copies

vars == <<cfg, last, copies>>

\* ---------------------------------------------------------------- inputs

RECURSIVE SetToGrid(_)
SetToGrid(S) ==
    IF S = {} THEN <<>>
    ELSE LET m == CHOOSE x \in S : \A y \in S : x <= y
         IN  <<RatOfInt(m)>> \o SetToGrid(S \ {m})

\* Caller-supplied grids: at least one interval, strictly increasing times.
InputGrids ==
    {SetToGrid(S) : S \in {X \in SUBSET ((0 - 1) .. MaxTime) : Cardinality(X) >= 2}}

InputSteps == 1 .. MaxSteps

InputNames == {"rhs", "rhs2"}

InputDiffsNames == {"diffs"}

scaledTimes(g) ==
    {RatDiv(g[i], RatSub(getLastTime(g), getFirstTime(g))) : i \in 1 .. Len(g)}

\* Times handed to getIntegrationInterval on grid g.
InputTimes(g) ==
    {Rat(p, q) : p \in (0 - 1) .. (MaxDen + 1), q \in 1 .. MaxDen}
        \cup scaledTimes(g)

Call(op, o) ==
    [op |-> op, obj |-> o, src |-> o, grid |-> EmptyGrid, steps |-> 0,
     name_ODE |-> "", name_diffs_ODE |-> "", time |-> RatOfInt(0),
     ret |-> SUCCESSFUL_RETURN, index |-> 0]

\* --------------------------------------------------------------- actions

Init ==
    /\ cfg = [o \in Objs |-> Constructor]
    /\ last = Call("IntegratorExport", "A")
    /\ copies = {}

Do_setGrid_Shared(o, grids) ==
    \E g \in grids :
        /\ cfg' = [p \in Objs |-> setGrid(cfg[p], g)]
        /\ last' = [Call("setGrid", o) EXCEPT !.grid = g]
        /\ UNCHANGED copies

Do_setGrid(o, grids) ==
    \E g \in grids :
        /\ cfg' = [cfg EXCEPT ![o] = setGrid(cfg[o], g)]
        /\ last' = [Call("setGrid", o) EXCEPT !.grid = g]
        /\ UNCHANGED copies

Do_setGridSteps(o, grids, steps) ==
    \E g \in grids, s \in steps :
        /\ cfg' = [cfg EXCEPT ![o] = setGridSteps(cfg[o], g, s)]
        /\ last' = [Call("setGridSteps", o) EXCEPT !.grid = g, !.steps = s]
        /\ UNCHANGED copies

Do_setModel(o, names) ==
    \E n \in names, d \in InputDiffsNames :
        /\ cfg' = [cfg EXCEPT ![o] = setModel(cfg[o], n, d)]
        /\ last' = [Call("setModel", o) EXCEPT
                        !.name_ODE = n, !.name_diffs_ODE = d,
                        !.ret = setModelReturn(cfg[o])]
        /\ UNCHANGED copies

Do_setDifferentialEquation(o) ==
    \E d \in 1 .. MaxDim :
        /\ cfg' = [cfg EXCEPT ![o] = setDifferentialEquation(cfg[o], d)]
        /\ last' = Call("setDifferentialEquation", o)
        /\ UNCHANGED copies

\* getLastTime( ) needs a grid with points; the grids given to it here have
\* at least one interval.
Do_getIntegrationInterval(o) ==
    /\ getNumIntervals(cfg[o].grid) >= 1
    /\ \E t \in InputTimes(cfg[o].grid) :
        last' = [Call("getIntegrationInterval", o) EXCEPT
                    !.time = t,
                    !.index = getIntegrationInterval(cfg[o], t)]
    /\ UNCHANGED <<cfg, copies>>

\* dst becomes a new object, copy-constructed from src.
Do_CopyConstructor(dst, src) ==
    /\ dst # src
    /\ cfg' = [cfg EXCEPT ![dst] = CopyConstructor(cfg[src])]
    /\ last' = [Call("copyConstructor", dst) EXCEPT !.src = src]
    /\ copies' = {p \in copies : p[1] # dst /\ p[2] # dst} \cup {<<dst, src>>}

\* dst = src, dst and src possibly the same object.
Do_assign(dst, src) ==
    /\ cfg' = [cfg EXCEPT ![dst] = assign(cfg[dst], cfg[src], dst = src)]
    /\ last' = [Call("operator=", dst) EXCEPT !.src = src]
    /\ copies' = IF dst = src THEN copies ELSE copies \cup {<<dst, src>>}

\* One object, configured by setGrid, setGrid with sub-steps and setModel
\* (its symbolic right-hand side stays of dimension 0).
Next ==
    \/ Do_setGrid("A", InputGrids)
    \/ Do_setGridSteps("A", InputGrids, InputSteps)
    \/ Do_setModel("A", {"rhs"})

Spec == Init /\ [][Next]_vars

\* One object whose grid is set and queried.  The coarse grids are the
\* equidistant ones and one that is not: a coarse grid that is not
\* equidistant leaves a grid of a single interval.
LocateCoarseGrids ==
    {g \in InputGrids : isEquidistant(g)} \cup {SetToGrid({0, 1, 3})}

NextLocate ==
    \/ Do_setGrid("A", InputGrids)
    \/ Do_setGridSteps("A", LocateCoarseGrids, InputSteps)
    \/ Do_getIntegrationInterval("A")

SpecLocate == Init /\ [][NextLocate]_vars

\* One object whose model is bound, externally by setModel or symbolically
\* by a subclass, between calls that set its grid.
ModelGrids == {SetToGrid({0, 1}), SetToGrid({0, 1, 3})}

NextModel ==
    \/ Do_setGrid("A", ModelGrids)
    \/ Do_setGridSteps("A", ModelGrids, InputSteps)
    \/ Do_setModel("A", InputNames)
    \/ Do_setDifferentialEquation("A")

SpecModel == Init /\ [][NextModel]_vars

\* Two objects, each configured on its own, copy-constructed from the other
\* and assigned from the other or from itself.
CopySteps == {2}

NextCopy ==
    \E o \in Objs :
        \/ Do_setGrid(o, ModelGrids)
        \/ Do_setGridSteps(o, ModelGrids, CopySteps)
        \/ Do_setModel(o, {"rhs"})
        \/ \E src \in Objs : Do_CopyConstructor(o, src)
        \/ \E src \in Objs : Do_assign(o, src)

SpecCopy == Init /\ [][NextCopy]_vars

\* ---------------------------------------------------------------- claims

Mutators == {"setGrid", "setGridSteps", "setModel"}

\* The scaled boundary scale*getTime(k) of grid g.
scaledBoundary(g, k) ==
    RatDiv(getTime(g, k), RatSub(getLastTime(g), getFirstTime(g)))

\* C1: right after setGrid(coarseGrid, totalSubSteps), equidistantControlGrid()
\* is true if the coarse grid is equidistant and false if it is not.
C1_EquidistantControlGridFollowsLastCall ==
    last.op = "setGridSteps" =>
        (equidistantControlGrid(cfg[last.obj]) <=> isEquidistant(last.grid))

\* C2: right after B is copy-constructed from A or assigned from A, B's three
\* flags, grid and step-count sequence equal A's.
C2_CopyIsMemberwise ==
    last.op \in {"copyConstructor", "operator="} =>
        LET b == cfg[last.obj]
            a == cfg[last.src]
        IN  /\ b.EXPORT_RHS = a.EXPORT_RHS
            /\ b.EQUIDISTANT = a.EQUIDISTANT
            /\ b.CRS_FORMAT = a.CRS_FORMAT
            /\ b.grid = a.grid
            /\ b.numSteps = a.numSteps

\* C3 as stated: getIntegrationInterval at a time equal to the scaled interior
\* boundary k (1 <= k <= n-1) returns k.
C3_InteriorBoundaryReturnsK ==
    last.op = "getIntegrationInterval" =>
        LET g == cfg[last.obj].grid
        IN  \A k \in 1 .. (getNumIntervals(g) - 1) :
                last.time = scaledBoundary(g, k) => last.index = k

\* C3 as amended: getIntegrationInterval at a time equal to the scaled
\* interior boundary k (1 <= k <= n-1) returns k-1, the interval that ends at
\* that boundary.
C3_InteriorBoundaryReturnsKMinusOne ==
    last.op = "getIntegrationInterval" =>
        LET g == cfg[last.obj].grid
        IN  \A k \in 1 .. (getNumIntervals(g) - 1) :
                last.time = scaledBoundary(g, k) => last.index = k - 1

\* A call at the second interior boundary of a grid of three intervals or
\* more, which returned 1.
C3_Witness ==
    /\ last.op = "getIntegrationInterval"
    /\ getNumIntervals(cfg[last.obj].grid) >= 3
    /\ last.time = scaledBoundary(cfg[last.obj].grid, 2)
    /\ last.index = 1

\* C4: setModel on a right-hand side of dimension 0 returns success, makes
\* getNameODE and getNameDiffsODE return the two names and sets EXPORT_RHS to
\* false, on a second call too; on a right-hand side of another dimension it
\* returns RET_INVALID_OPTION and leaves the names, EXPORT_RHS, the grid and
\* the step-count sequence as they were.
C4_SetModelGatedByDimension ==
    [][last'.op = "setModel" =>
        LET pre == cfg[last'.obj]
            post == cfg'[last'.obj]
        IN  IF pre.ODE.dim = 0
            THEN /\ last'.ret = SUCCESSFUL_RETURN
                 /\ getNameODE(post) = last'.name_ODE
                 /\ getNameDiffsODE(post) = last'.name_diffs_ODE
                 /\ post.EXPORT_RHS = FALSE
            ELSE /\ last'.ret = RET_INVALID_OPTION
                 /\ post.name_ODE = pre.name_ODE
                 /\ post.name_diffs_ODE = pre.name_diffs_ODE
                 /\ post.EXPORT_RHS = pre.EXPORT_RHS
                 /\ post.grid = pre.grid
                 /\ post.numSteps = pre.numSteps]_vars

\* A rejected setModel call on an object that an earlier call had bound to
\* "rhs2", made with another name.
C4_Witness ==
    /\ last.op = "setModel"
    /\ last.ret = RET_INVALID_OPTION
    /\ last.name_ODE = "rhs"
    /\ cfg[last.obj].EXPORT_RHS = FALSE
    /\ cfg[last.obj].name_ODE = "rhs2"
    /\ cfg[last.obj].numSteps # <<>>

\* The example of C5: four intervals of length 1 and eight sub-steps.
C5_Example ==
    setGridSteps(Constructor, SetToGrid({0, 1, 2, 3, 4}), 8).grid
        = <<RatOfInt(0), Rat(1, 2), RatOfInt(1)>>

\* C5: right after setGrid(coarseGrid, S) with an equidistant coarse grid of N
\* intervals of length L, the owned grid has ceil(S/N - eps) + 1 points (the
\* least number pts with S <= (pts-1)*N), starts at 0 and ends at L = T/N.
C5_EquidistantFineGrid ==
    /\ C5_Example
    /\ (last.op = "setGridSteps" /\ isEquidistant(last.grid)) =>
        LET g == cfg[last.obj].grid
            n == Len(last.grid) - 1
            pts == Len(g)
            L == RatSub(last.grid[2], last.grid[1])
        IN  /\ (pts - 2) * n < last.steps
            /\ last.steps <= (pts - 1) * n
            /\ g[1] = RatOfInt(0)
            /\ g[pts] = L
            /\ RatMul(RatOfInt(n), L)
                 = RatSub(last.grid[n + 1], last.grid[1])

\* Two equal intervals and three sub-steps: three points.
C5_Witness ==
    /\ last.op = "setGridSteps"
    /\ isEquidistant(last.grid)
    /\ Len(last.grid) = 3
    /\ last.steps = 3
    /\ Len(cfg[last.obj].grid) = 3

\* C6: right after setGrid(coarseGrid, S) with a coarse grid of N intervals
\* that is not equidistant, the owned grid is the two points 0 and h = T/S and
\* the step-count sequence has N entries, entry i being ceil(duration_i/h -
\* eps): the least count c with duration_i <= c*h.
C6_NonEquidistantStepCounts ==
    (last.op = "setGridSteps" /\ ~isEquidistant(last.grid)) =>
        LET c == cfg[last.obj]
            n == Len(last.grid) - 1
            T == RatSub(last.grid[n + 1], last.grid[1])
        IN  /\ Len(c.grid) = 2
            /\ c.grid[1] = RatOfInt(0)
            /\ RatMul(RatOfInt(last.steps), c.grid[2]) = T
            /\ Len(c.numSteps) = n
            /\ \A i \in 1 .. n :
                LET d == RatSub(last.grid[i + 1], last.grid[i])
                IN  /\ RatLeq(d, RatMul(RatOfInt(c.numSteps[i]), c.grid[2]))
                    /\ RatLess(RatMul(RatOfInt(c.numSteps[i] - 1), c.grid[2]), d)

\* A call that left two different step counts, one of them for an interval
\* that is an exact multiple of h.
C6_Witness ==
    /\ last.op = "setGridSteps"
    /\ ~isEquidistant(last.grid)
    /\ cfg[last.obj].numSteps = <<1, 2>>
    /\ cfg[last.obj].grid[2] = RatOfInt(1)

\* C7: the step-count sequence is empty or as long as the stored N, the
\* interval count of the coarse grid of the latest setGrid(coarseGrid, S).
C7_StepCountLengthIsN ==
    \A o \in Objs :
        \/ cfg[o].numSteps = <<>>
        \/ Len(cfg[o].numSteps) = cfg[o].N

\* C8: on an owned grid of n >= 1 intervals, for times t1 <= t2,
\* 0 <= getIntegrationInterval(t1) <= getIntegrationInterval(t2) <= n-1, and
\* a time at or beyond the scaled final boundary gives n-1.
C8_LocateInRangeAndMonotone ==
    \A o \in Objs :
        LET g == cfg[o].grid
            n == getNumIntervals(g)
        IN  n >= 1 =>
            /\ \A t1, t2 \in InputTimes(g) :
                RatLeq(t1, t2) =>
                    /\ 0 <= getIntegrationInterval(cfg[o], t1)
                    /\ getIntegrationInterval(cfg[o], t1)
                         <= getIntegrationInterval(cfg[o], t2)
                    /\ getIntegrationInterval(cfg[o], t2) <= n - 1
            /\ \A t \in InputTimes(g) :
                RatLeq(scaledBoundary(g, n), t) =>
                    getIntegrationInterval(cfg[o], t) = n - 1
            /\ (last.op = "getIntegrationInterval" /\ last.obj = o) =>
                    last.index = getIntegrationInterval(cfg[o], last.time)

\* A call beyond the scaled final boundary of a grid of two intervals or
\* more, which returned the last interval.
C8_Witness ==
    /\ last.op = "getIntegrationInterval"
    /\ getNumIntervals(cfg[last.obj].grid) >= 2
    /\ RatLess(scaledBoundary(cfg[last.obj].grid,
                              getNumIntervals(cfg[last.obj].grid)), last.time)
    /\ last.index = getNumIntervals(cfg[last.obj].grid) - 1

\* C9: once one object was copied into another (by copy construction or by
\* assignment), a setGrid, setGrid with sub-steps or setModel call on either
\* leaves every member of the other as it was.
C9_CopyIndependence ==
    [][\A o \in Objs :
        (/\ last'.op \in Mutators
         /\ last'.obj # o
         /\ (<<o, last'.obj>> \in copies \/ <<last'.obj, o>> \in copies))
        => cfg'[o] = cfg[o]]_vars

\* A was copied into B and into nothing else, then A's grid was set: B's grid
\* is not A's.
C9_Witness ==
    /\ last.op = "setGrid"
    /\ last.obj = "A"
    /\ copies = {<<"B", "A">>}
    /\ cfg["A"].grid = last.grid
    /\ cfg["B"].grid # cfg["A"].grid

\* C10: setGrid(fineGrid) makes fineGrid the owned grid, sets EQUIDISTANT to
\* false and leaves the step-count sequence and EXPORT_RHS as they were; and
\* no setGrid, setGrid with sub-steps or setModel call on an object whose
\* EQUIDISTANT is false makes it true.
C10_SetGridClearsEquidistantForGood ==
    [][/\ last'.op = "setGrid" =>
            /\ cfg'[last'.obj].grid = last'.grid
            /\ cfg'[last'.obj].EQUIDISTANT = FALSE
            /\ cfg'[last'.obj].numSteps = cfg[last'.obj].numSteps
            /\ cfg'[last'.obj].EXPORT_RHS = cfg[last'.obj].EXPORT_RHS
       /\ (last'.op \in Mutators /\ cfg[last'.obj].EQUIDISTANT = FALSE) =>
            cfg'[last'.obj].EQUIDISTANT = FALSE]_vars

\* An equidistant coarse grid was set on an object whose EQUIDISTANT flag
\* had been cleared, and the flag is still false.
C10_Witness ==
    /\ last.op = "setGridSteps"
    /\ isEquidistant(last.grid)
    /\ cfg[last.obj].EQUIDISTANT = FALSE
    /\ cfg[last.obj].EXPORT_RHS = FALSE

====
